---- MODULE Spec2Model ----
(***************************************************************************)
(* Fixed-capacity array-backed binary heap (sbinheap.h).                   *)
(*                                                                         *)
(* Pointers into the backing array are modelled by the offset of the node  *)
(* they point at: a struct sbinheap_node* is an offset in 0..max_size-1 or *)
(* NULL, and a struct sbinheap_node** (ref_ptr, always the address of some *)
(* node's ref field) is the offset of the node that owns that ref field.   *)
(* A payload (void *data) is the number of a caller-owned object, 0 being  *)
(* the null pointer; key[p] is the comparison key the caller keeps inside  *)
(* object p.                                                               *)
(***************************************************************************)
EXTENDS Integers, Sequences, FiniteSets, TLC

\* ------------------------------------------------------------------ bounds
\* capacity of the heap instance (struct sbinheap::max_size)
MaxSize == 4
\* keys of the caller's objects range over 0..MaxKey
MaxKey == 2
\* a second backing array lies at most MaxGap nodes away from the heap's
MaxGap == 2

\* ------------------------------------------------------- program constants
SBINHEAP_BADIDX == -1
\* the null pointer, for node pointers and node-pointer pointers
NULL == -1
\* "no value": the result of a function declared void
VOID == -2

Slots == 0 .. (MaxSize - 1)
Payloads == 1 .. (MaxSize + 1)
Keys == 0 .. MaxKey

VARIABLES
    size,        \* struct sbinheap::size
    alloc_size,  \* struct sbinheap::alloc_size
    buf,         \* struct sbinheap::buf : Slots -> struct sbinheap_node
    key,         \* caller state: comparison key of each payload object
    owner,       \* history: payload each handle was inserted for, 0 once removed
    inserted,    \* history: number of successful sbinheap_add calls
    lastOp,      \* history: the last call, with its results
    heap_compare,\* struct sbinheap::compare, the caller's comparator
    sift         \* the sift loop in progress: its kind, position and swaps

vars == <<size, alloc_size, buf, key, owner, inserted, lastOp, heap_compare, sift>>

max_size == MaxSize

\* struct sbinheap_node as INIT_SBINHEAP leaves it
init_node == [data |-> 0, ref |-> NULL, ref_ptr |-> NULL, idx |-> SBINHEAP_BADIDX]

\* no sift loop is running
idle == [pc |-> "idle", pos |-> 0, swaps |-> 0]

Init ==
    /\ heap_compare = "less"
    /\ sift = idle
    /\ size = 0
    /\ alloc_size = 0
    /\ buf = [i \in Slots |-> init_node]
    /\ key = [p \in Payloads |-> 0]
    /\ owner = [h \in Slots |-> 0]
    /\ inserted = 0
    /\ lastOp = [op |-> "init", ret |-> VOID, out |-> NULL]

\* the comparators a caller may hand to the heap
Orders == {"less", "leq", "neq", "always", "never"}

\* a heap constructed over any comparator, misbehaving ones included
InitAnyCompare ==
    /\ heap_compare \in Orders
    /\ sift = idle
    /\ size = 0
    /\ alloc_size = 0
    /\ buf = [i \in Slots |-> init_node]
    /\ key = [p \in Payloads |-> 0]
    /\ owner = [h \in Slots |-> 0]
    /\ inserted = 0
    /\ lastOp = [op |-> "init", ret |-> VOID, out |-> NULL]

\* ---------------------------------------------------------------- helpers

\* the answer of comparator o on two keys; "less" is the min-heap comparator
\* the header assumes, the others are comparators that are no strict order
Rank(o, x, y) ==
    CASE o = "less" -> x < y
      [] o = "leq" -> x <= y
      [] o = "neq" -> x # y
      [] o = "always" -> TRUE
      [] OTHER -> FALSE

\* heap->compare(a, c): does node a rank strictly ahead of node c ?
compare(b, k, a, c) == Rank(heap_compare, k[b[a].data], k[b[c].data])

\* variant: the halving is missing
parent_dec(i) == i - 1

parent(i) == (i - 1) \div 2
left(i) == 2 * i + 1
right(i) == 2 * i + 2

\* variant: tests alloc_size instead of size
sbinheap_empty_alloc == (alloc_size = 0)

sbinheap_empty == (size = 0)

\* variant: tests the forwarding pointer instead of idx
sbinheap_is_in_heap_ref(b, node) == b[node].ref # NULL

sbinheap_is_in_heap(b, node) == b[node].idx # SBINHEAP_BADIDX

\* sbinheap_is_in_this_heap, for the node at address node whose idx field
\* holds node_idx and a heap whose buf starts at address heap_buf
\* (addresses count in units of one struct sbinheap_node)
sbinheap_is_in_this_heap(node, node_idx, heap_buf) ==
    (node - node_idx) = heap_buf

\* variant: the claimed offset is read without the post-increment
__sbinheap_alloc_node_noinc(sz, al) ==
    IF al < max_size THEN <<al, al>> ELSE <<NULL, al>>

\* variant: the guard admits alloc_size = max_size
__sbinheap_alloc_node_le(sz, al) ==
    IF al <= max_size THEN <<al, al + 1>> ELSE <<NULL, al>>

\* variant: the slot behind the last live position is claimed again
__sbinheap_alloc_node_reuse(sz, al) ==
    IF sz < max_size
    THEN <<sz, IF al < max_size THEN al + 1 ELSE al>>
    ELSE <<NULL, al>>

\* __sbinheap_alloc_node: <<n, alloc_size afterwards>>
__sbinheap_alloc_node(sz, al) ==
    IF al < max_size THEN <<al, al + 1>> ELSE <<NULL, al>>

\* exchange the entries at positions a and c, re-pointing their owners' ref
__sbinheap_swap(b, a, c) ==
    LET ra == b[a].ref_ptr
        rc == b[c].ref_ptr
        b1 == [b EXCEPT ![a].data = b[c].data, ![a].ref_ptr = rc,
                        ![c].data = b[a].data, ![c].ref_ptr = ra]
        b2 == [b1 EXCEPT ![rc].ref = a]
    IN  [b2 EXCEPT ![ra].ref = c]

\* sift-up from position i while the comparator ranks it ahead of its parent
RECURSIVE __sbinheap_bubble_up(_, _, _)
__sbinheap_bubble_up(b, k, i) ==
    IF i > 0 /\ compare(b, k, i, parent(i))
    THEN __sbinheap_bubble_up(__sbinheap_swap(b, i, parent(i)), k, parent(i))
    ELSE b

\* forced promotion to position 0, whatever the comparator says
RECURSIVE __sbinheap_force_up(_, _)
__sbinheap_force_up(b, i) ==
    IF i > 0
    THEN __sbinheap_force_up(__sbinheap_swap(b, i, parent(i)), parent(i))
    ELSE b

\* sift-down from position i in a heap of n live positions
RECURSIVE __sbinheap_bubble_down(_, _, _, _)
__sbinheap_bubble_down(b, k, n, i) ==
    IF left(i) >= n THEN b
    ELSE LET c == IF right(i) < n /\ compare(b, k, right(i), left(i))
                  THEN right(i) ELSE left(i)
         IN  IF compare(b, k, c, i)
             THEN __sbinheap_bubble_down(__sbinheap_swap(b, i, c), k, n, c)
             ELSE b

\* first half of __sbinheap_insert: the entry of new_node goes to position sz
__sbinheap_place(b, sz, new_node) ==
    IF sz = new_node THEN b
    ELSE [[b EXCEPT ![sz].data = b[new_node].data,
                    ![sz].ref_ptr = b[new_node].ref_ptr]
             EXCEPT ![b[new_node].ref_ptr].ref = sz]

\* __sbinheap_insert: the entry of new_node goes to position size, then sifts up
\* <<buf afterwards, size afterwards>>
__sbinheap_insert(b, k, sz, new_node) ==
    <<__sbinheap_bubble_up(__sbinheap_place(b, sz, new_node), k, sz), sz + 1>>

\* variant: n->ref is left as it was
__sbinheap_add_noref(b, k, sz, al, data, ret0) ==
    LET a == __sbinheap_alloc_node(sz, al)
        n == a[1]
    IN  IF n # NULL
        THEN LET b1 == [b EXCEPT ![n] = [data |-> data, ref |-> b[n].ref,
                                          ref_ptr |-> n, idx |-> n]]
                 r == __sbinheap_insert(b1, k, sz, n)
             IN  <<n, r[1], r[2], a[2], n>>
        ELSE <<n, b, sz, a[2], n>>

\* variant: n->ref_ptr is left as it was
__sbinheap_add_norefptr(b, k, sz, al, data, ret0) ==
    LET a == __sbinheap_alloc_node(sz, al)
        n == a[1]
    IN  IF n # NULL
        THEN LET b1 == [b EXCEPT ![n] = [data |-> data, ref |-> n,
                                          ref_ptr |-> b[n].ref_ptr, idx |-> n]]
                 r == __sbinheap_insert(b1, k, sz, n)
             IN  <<n, r[1], r[2], a[2], n>>
        ELSE <<n, b, sz, a[2], n>>

\* variant: n->idx is left as it was
__sbinheap_add_noidx(b, k, sz, al, data, ret0) ==
    LET a == __sbinheap_alloc_node(sz, al)
        n == a[1]
    IN  IF n # NULL
        THEN LET b1 == [b EXCEPT ![n] = [data |-> data, ref |-> n,
                                          ref_ptr |-> n, idx |-> b[n].idx]]
                 r == __sbinheap_insert(b1, k, sz, n)
             IN  <<n, r[1], r[2], a[2], n>>
        ELSE <<n, b, sz, a[2], n>>

\* variant: *ret is stored only when a node was claimed
__sbinheap_add_noout(b, k, sz, al, data, ret0) ==
    LET a == __sbinheap_alloc_node(sz, al)
        n == a[1]
    IN  IF n # NULL
        THEN LET b1 == [b EXCEPT ![n] = [data |-> data, ref |-> n,
                                          ref_ptr |-> n, idx |-> n]]
                 r == __sbinheap_insert(b1, k, sz, n)
             IN  <<n, r[1], r[2], a[2], n>>
        ELSE <<n, b, sz, a[2], ret0>>

\* __sbinheap_add: <<n returned, buf, size, alloc_size, *ret afterwards>>
\* (ret0 is what the caller's *ret held before the call)
__sbinheap_add(b, k, sz, al, data, ret0) ==
    LET a == __sbinheap_alloc_node(sz, al)
        n == a[1]
    IN  IF n # NULL
        THEN LET b1 == [b EXCEPT ![n] = [data |-> data, ref |-> n,
                                          ref_ptr |-> n, idx |-> n]]
                 r == __sbinheap_insert(b1, k, sz, n)
             IN  <<n, r[1], r[2], a[2], n>>
        ELSE <<n, b, sz, a[2], n>>

\* first half of __sbinheap_delete_root on a non-empty heap: the last entry
\* is exchanged with the root and the root's handle leaves the heap
__sbinheap_remove_root(b, sz) ==
    LET node == b[0].ref_ptr
        last == sz - 1
        b1 == IF last = 0 THEN b ELSE __sbinheap_swap(b, 0, last)
    IN  [b1 EXCEPT ![node].idx = SBINHEAP_BADIDX]

\* variant: no test for the empty heap
__sbinheap_delete_root_nocheck(b, k, sz) ==
    LET node == b[0].ref_ptr
        last == sz - 1
        b1 == IF last <= 0 THEN b ELSE __sbinheap_swap(b, 0, last)
        b2 == IF node \in Slots THEN [b1 EXCEPT ![node].idx = SBINHEAP_BADIDX]
              ELSE b1
    IN  IF last <= 0 THEN <<b2, last>>
        ELSE <<__sbinheap_bubble_down(b2, k, last, 0), last>>

\* __sbinheap_delete_root: <<buf afterwards, size afterwards>>
__sbinheap_delete_root(b, k, sz) ==
    IF sz = 0 THEN <<b, sz>>
    ELSE <<__sbinheap_bubble_down(__sbinheap_remove_root(b, sz), k, sz - 1, 0),
           sz - 1>>

\* __sbinheap_delete: <<buf afterwards, size afterwards>>
__sbinheap_delete(b, k, sz, node_to_delete) ==
    __sbinheap_delete_root(__sbinheap_force_up(b, b[node_to_delete].ref), k, sz)

\* __sbinheap_decrease: buf afterwards
__sbinheap_decrease(b, k, orig_node) ==
    __sbinheap_bubble_up(b, k, b[orig_node].ref)

\* sbinheap_for_each: the nodes handed to the visitor, in visiting order;
\* one pass over the backing array, visiting the slots whose idx is not the
\* sentinel
sbinheap_for_each(b) ==
    SelectSeq([j \in 1 .. max_size |-> j - 1],
              LAMBDA n : b[n].idx # SBINHEAP_BADIDX)

\* ------------------------------------------------- slot offsets accessed
\* The offsets into buf that each routine reads or writes, following the
\* same control flow as the routine itself.

__sbinheap_swap_idx(b, a, c) == {a, c, b[a].ref_ptr, b[c].ref_ptr}

RECURSIVE __sbinheap_bubble_up_idx(_, _, _)
__sbinheap_bubble_up_idx(b, k, i) ==
    IF i <= 0 THEN {i}
    ELSE {i, parent(i)} \cup
         IF {i, parent(i)} \subseteq Slots /\ compare(b, k, i, parent(i))
         THEN __sbinheap_swap_idx(b, i, parent(i)) \cup
              __sbinheap_bubble_up_idx(__sbinheap_swap(b, i, parent(i)), k, parent(i))
         ELSE {}

RECURSIVE __sbinheap_force_up_idx(_, _)
__sbinheap_force_up_idx(b, i) ==
    IF i <= 0 THEN {i}
    ELSE {i, parent(i)} \cup
         IF {i, parent(i)} \subseteq Slots
         THEN __sbinheap_swap_idx(b, i, parent(i)) \cup
              __sbinheap_force_up_idx(__sbinheap_swap(b, i, parent(i)), parent(i))
         ELSE {}

RECURSIVE __sbinheap_bubble_down_idx(_, _, _, _)
__sbinheap_bubble_down_idx(b, k, n, i) ==
    IF left(i) >= n THEN {i}
    ELSE LET kids == IF right(i) < n THEN {left(i), right(i)} ELSE {left(i)}
         IN  {i} \cup kids \cup
             IF ({i} \cup kids) \subseteq Slots
             THEN LET c == IF right(i) < n /\ compare(b, k, right(i), left(i))
                           THEN right(i) ELSE left(i)
                  IN  IF compare(b, k, c, i)
                      THEN __sbinheap_swap_idx(b, i, c) \cup
                           __sbinheap_bubble_down_idx(__sbinheap_swap(b, i, c), k, n, c)
                      ELSE {}
             ELSE {}

__sbinheap_insert_idx(b, k, sz, new_node) ==
    {new_node, sz} \cup
    IF {new_node, sz} \subseteq Slots
    THEN {b[new_node].ref_ptr} \cup
         __sbinheap_bubble_up_idx(__sbinheap_place(b, sz, new_node), k, sz)
    ELSE {}

__sbinheap_add_idx(b, k, sz, al, data) ==
    LET n == __sbinheap_alloc_node(sz, al)[1]
    IN  IF n = NULL THEN {}
        ELSE {n} \cup
             IF n \in Slots
             THEN __sbinheap_insert_idx(
                      [b EXCEPT ![n] = [data |-> data, ref |-> n,
                                        ref_ptr |-> n, idx |-> n]], k, sz, n)
             ELSE {}

__sbinheap_delete_root_idx(b, k, sz) ==
    IF sz = 0 THEN {}
    ELSE LET node == b[0].ref_ptr
             last == sz - 1
         IN  {0, last, node} \cup
             IF {last, node} \subseteq Slots
             THEN __sbinheap_swap_idx(b, 0, last) \cup
                  __sbinheap_bubble_down_idx(__sbinheap_remove_root(b, sz), k, last, 0)
             ELSE {}

__sbinheap_delete_idx(b, k, sz, node_to_delete) ==
    {node_to_delete, b[node_to_delete].ref} \cup
    IF b[node_to_delete].ref \in Slots
    THEN __sbinheap_force_up_idx(b, b[node_to_delete].ref) \cup
         __sbinheap_delete_root_idx(
             __sbinheap_force_up(b, b[node_to_delete].ref), k, sz)
    ELSE {}

__sbinheap_decrease_idx(b, k, orig_node) ==
    {orig_node, b[orig_node].ref} \cup
    IF b[orig_node].ref \in Slots
    THEN __sbinheap_bubble_up_idx(b, k, b[orig_node].ref)
    ELSE {}

\* ---------------------------------------------------------------- actions

LivePayloads == {buf[i].data : i \in 0 .. (size - 1)}

\* the caller releases an object once its entry has left the heap
Released(k, p) == [k EXCEPT ![p] = 0]

\* every call of sbinheap_add is made on a fresh object of the caller
NewPayload == MaxSize + 1 - inserted

\* the caller sets the key of a fresh object and calls sbinheap_add on it
Add(p, kv) ==
    /\ p = NewPayload
    /\ LET k1 == [key EXCEPT ![p] = kv]
           r == __sbinheap_add(buf, k1, size, alloc_size, p, lastOp.out)
       IN  /\ key' = IF r[1] # NULL THEN k1 ELSE key
           /\ buf' = r[2]
           /\ size' = r[3]
           /\ alloc_size' = r[4]
           /\ owner' = IF r[1] # NULL THEN [owner EXCEPT ![r[1]] = p] ELSE owner
           /\ inserted' = IF r[1] # NULL THEN inserted + 1 ELSE inserted
           /\ lastOp' = [op |-> "add", ret |-> r[1], out |-> r[5]]
    /\ UNCHANGED <<heap_compare, sift>>

DeleteRoot ==
    /\ LET r == __sbinheap_delete_root(buf, key, size)
       IN  /\ buf' = r[1]
           /\ size' = r[2]
    /\ owner' = [h \in Slots |->
                    IF size > 0 /\ owner[h] = buf[0].data THEN 0 ELSE owner[h]]
    /\ key' = IF size > 0 THEN Released(key, buf[0].data) ELSE key
    /\ lastOp' = [op |-> "delete_root", ret |-> VOID, out |-> lastOp.out]
    /\ UNCHANGED <<alloc_size, inserted, heap_compare, sift>>

\* contract: node is a handle whose entry is live in this heap
Delete(node) ==
    /\ owner[node] # 0
    /\ LET r == __sbinheap_delete(buf, key, size, node)
       IN  /\ buf' = r[1]
           /\ size' = r[2]
    /\ owner' = [owner EXCEPT ![node] = 0]
    /\ key' = Released(key, owner[node])
    /\ lastOp' = [op |-> "delete", ret |-> VOID, out |-> lastOp.out]
    /\ UNCHANGED <<alloc_size, inserted, heap_compare, sift>>

\* the caller improves the key of the object behind a live handle, then calls
\* sbinheap_decrease with that handle
Decrease(node, kv) ==
    /\ owner[node] # 0
    /\ kv < key[owner[node]]
    /\ LET k1 == [key EXCEPT ![owner[node]] = kv]
       IN  /\ key' = k1
           /\ buf' = __sbinheap_decrease(buf, k1, node)
    /\ lastOp' = [op |-> "decrease", ret |-> VOID, out |-> lastOp.out]
    /\ UNCHANGED <<size, alloc_size, owner, inserted, heap_compare, sift>>

\* misuse: the caller worsens the key of the object behind a live handle (or
\* leaves it as it is), then calls sbinheap_decrease with that handle
DecreaseWorse(node, kv) ==
    /\ owner[node] # 0
    /\ kv >= key[owner[node]]
    /\ LET k1 == [key EXCEPT ![owner[node]] = kv]
       IN  /\ key' = k1
           /\ buf' = __sbinheap_decrease(buf, k1, node)
    /\ lastOp' = [op |-> "decrease_worse", ret |-> VOID, out |-> lastOp.out]
    /\ UNCHANGED <<size, alloc_size, owner, inserted, heap_compare, sift>>

Next ==
    \/ \E p \in Payloads, kv \in Keys : Add(p, kv)
    \/ DeleteRoot
    \/ \E node \in Slots : Delete(node)
    \/ \E node \in Slots, kv \in Keys : Decrease(node, kv)

Spec == Init /\ [][Next]_vars

\* ------------------------------------------------ the calls, loop by loop
\* The same calls with every iteration of a sift loop as a step of its own.
\* sift.pc names the loop that is running, sift.pos its current position and
\* sift.swaps the swaps it has made.

StepBeginAdd(p, kv) ==
    /\ sift.pc = "idle"
    /\ p = NewPayload
    /\ LET a == __sbinheap_alloc_node(size, alloc_size)
           n == a[1]
       IN  /\ alloc_size' = a[2]
           /\ lastOp' = [op |-> "add", ret |-> n, out |-> n]
           /\ IF n # NULL
              THEN /\ buf' = __sbinheap_place(
                                 [buf EXCEPT ![n] = [data |-> p, ref |-> n,
                                                     ref_ptr |-> n, idx |-> n]],
                                 size, n)
                   /\ size' = size + 1
                   /\ key' = [key EXCEPT ![p] = kv]
                   /\ owner' = [owner EXCEPT ![n] = p]
                   /\ inserted' = inserted + 1
                   /\ sift' = [pc |-> "up", pos |-> size, swaps |-> 0]
              ELSE UNCHANGED <<buf, size, key, owner, inserted, sift>>
    /\ UNCHANGED heap_compare

StepBeginDecrease(node, kv) ==
    /\ sift.pc = "idle"
    /\ owner[node] # 0
    /\ kv < key[owner[node]]
    /\ key' = [key EXCEPT ![owner[node]] = kv]
    /\ sift' = [pc |-> "up", pos |-> buf[node].ref, swaps |-> 0]
    /\ lastOp' = [op |-> "decrease", ret |-> VOID, out |-> lastOp.out]
    /\ UNCHANGED <<size, alloc_size, buf, owner, inserted, heap_compare>>

\* one test of the sift-up loop, and its swap if the test succeeds
StepUp ==
    /\ sift.pc = "up"
    /\ IF sift.pos > 0 /\ compare(buf, key, sift.pos, parent(sift.pos))
       THEN /\ buf' = __sbinheap_swap(buf, sift.pos, parent(sift.pos))
            /\ sift' = [pc |-> "up", pos |-> parent(sift.pos),
                        swaps |-> sift.swaps + 1]
       ELSE /\ buf' = buf
            /\ sift' = idle
    /\ UNCHANGED <<size, alloc_size, key, owner, inserted, lastOp, heap_compare>>

\* the root leaves the heap and the sift-down of the entry moved there begins
RemoveRoot ==
    /\ buf' = __sbinheap_remove_root(buf, size)
    /\ size' = size - 1
    /\ owner' = [h \in Slots |-> IF owner[h] = buf[0].data THEN 0 ELSE owner[h]]
    /\ key' = Released(key, buf[0].data)
    /\ sift' = [pc |-> "down", pos |-> 0, swaps |-> 0]

StepBeginDeleteRoot ==
    /\ sift.pc = "idle"
    /\ IF size = 0
       THEN UNCHANGED <<buf, size, owner, key, sift>>
       ELSE RemoveRoot
    /\ lastOp' = [op |-> "delete_root", ret |-> VOID, out |-> lastOp.out]
    /\ UNCHANGED <<alloc_size, inserted, heap_compare>>

StepBeginDelete(node) ==
    /\ sift.pc = "idle"
    /\ owner[node] # 0
    /\ sift' = [pc |-> "force", pos |-> buf[node].ref, swaps |-> 0]
    /\ lastOp' = [op |-> "delete", ret |-> VOID, out |-> lastOp.out]
    /\ UNCHANGED <<size, alloc_size, buf, key, owner, inserted, heap_compare>>

\* one forced promotion, or, at position 0, the hand-over to the root deletion
StepForce ==
    /\ sift.pc = "force"
    /\ IF sift.pos > 0
       THEN /\ buf' = __sbinheap_swap(buf, sift.pos, parent(sift.pos))
            /\ sift' = [pc |-> "force", pos |-> parent(sift.pos),
                        swaps |-> sift.swaps + 1]
            /\ UNCHANGED <<size, owner, key>>
       ELSE RemoveRoot
    /\ UNCHANGED <<alloc_size, inserted, lastOp, heap_compare>>

\* one test of the sift-down loop, and its swap if the test succeeds
StepDown ==
    /\ sift.pc = "down"
    /\ LET i == sift.pos
           c == IF right(i) < size /\ compare(buf, key, right(i), left(i))
                THEN right(i) ELSE left(i)
       IN  IF left(i) < size /\ compare(buf, key, c, i)
           THEN /\ buf' = __sbinheap_swap(buf, i, c)
                /\ sift' = [pc |-> "down", pos |-> c, swaps |-> sift.swaps + 1]
           ELSE /\ buf' = buf
                /\ sift' = idle
    /\ UNCHANGED <<size, alloc_size, key, owner, inserted, lastOp, heap_compare>>

SiftStep == StepUp \/ StepForce \/ StepDown

NextSteps ==
    \/ \E p \in Payloads, kv \in Keys : StepBeginAdd(p, kv)
    \/ \E node \in Slots, kv \in Keys : StepBeginDecrease(node, kv)
    \/ StepBeginDeleteRoot
    \/ \E node \in Slots : StepBeginDelete(node)
    \/ StepUp
    \/ StepForce
    \/ StepDown

\* a call that has begun keeps running: nothing suspends or blocks it
SpecSteps == Init /\ [][NextSteps]_vars /\ WF_vars(SiftStep)

NextWorsen ==
    \/ Next
    \/ \E node \in Slots, kv \in Keys : DecreaseWorse(node, kv)

\* the calls of Spec, and decrease calls that break the caller's obligation
SpecWorsen == Init /\ [][NextWorsen]_vars

\* the same calls on a heap whose comparator may be any of Orders
SpecAnyCompare == InitAnyCompare /\ [][Next]_vars

\* ------------------------------------------------------------- properties

Live(h) == owner[h] # 0
LiveHandles == {h \in Slots : Live(h)}
\* h->ref->data, the payload a handle resolves to
Resolve(b, h) == IF b[h].ref \in Slots THEN b[b[h].ref].data ELSE 0

TypeOK ==
    /\ size \in 0 .. MaxSize
    /\ alloc_size \in 0 .. MaxSize

HeapOrderOf(b, k, sz) ==
    \A i \in 1 .. (sz - 1) : ~ compare(b, k, i, parent(i))

\* C1: in every reachable state, for every live position i with 0 < i < size
\* the comparator does not rank slots[i] strictly ahead of slots[(i-1)/2].
C1_HeapOrder == HeapOrderOf(buf, key, size)

\* a full heap with a strictly ordered parent/child pair, left by a deletion
\* or a decrease
C1_Witness ==
    /\ size >= 3
    /\ lastOp.op \in {"delete", "delete_root", "decrease"}
    /\ \E i \in 1 .. (size - 1) : compare(buf, key, parent(i), i)

\* C2: a delete_root on a non-empty heap removes exactly the payload at
\* position 0, no live payload precedes that payload under the comparator,
\* and the payload that becomes the root next does not precede it either
\* (so successive delete_root calls drain in comparator order).
C2_ExtractMin ==
    [][(lastOp'.op = "delete_root" /\ size > 0) =>
         /\ \A i \in 0 .. (size - 1) : ~ compare(buf, key, i, 0)
         /\ size' = size - 1
         /\ {buf'[i].data : i \in 0 .. (size' - 1)} = LivePayloads \ {buf[0].data}
         /\ Cardinality(LivePayloads) = size
         /\ (size' > 0 => key[buf[0].data] <= key[buf'[0].data])
         /\ (size = 1 => sbinheap_empty')]_vars

\* every slot was claimed and the heap has been drained by delete_root
C2_Witness ==
    /\ lastOp.op = "delete_root"
    /\ inserted = max_size
    /\ sbinheap_empty
    /\ \A h \in Slots : ~ Live(h)

\* C3: every handle whose entry has not been removed resolves, through its
\* forwarding pointer, to the payload it was inserted for.
C3_HandleStable ==
    \A h \in Slots : Live(h) =>
        /\ buf[h].ref \in 0 .. (size - 1)
        /\ Resolve(buf, h) = owner[h]

\* a live handle whose entry sits at another offset than the handle itself
C3_Witness ==
    /\ \E h \in Slots : Live(h) /\ buf[h].ref # h /\ Resolve(buf, h) = owner[h]
    /\ lastOp.op \in {"delete", "delete_root"}

\* C4: alloc_size never decreases, and once max_size inserts have succeeded
\* every later insert returns the null handle, whatever size is.
C4_Exhaustion ==
    [][/\ alloc_size' >= alloc_size
       /\ (lastOp'.op = "add" /\ inserted = max_size) =>
             (lastOp'.ret = NULL /\ inserted' = inserted)]_vars

\* an insert failed although the heap held fewer entries than its capacity
C4_Witness ==
    /\ lastOp.op = "add"
    /\ lastOp.ret = NULL
    /\ inserted = max_size
    /\ size < max_size

\* C5: a successful insert returns a non-null handle through the return value
\* and the out-parameter and increases size by exactly 1; a failed insert
\* happens only with alloc_size = max_size, returns the null handle through
\* both, and leaves size, alloc_size and every slot unchanged.
C5_InsertResult ==
    [][lastOp'.op = "add" =>
         /\ lastOp'.out = lastOp'.ret
         /\ (alloc_size < max_size) = (lastOp'.ret # NULL)
         /\ lastOp'.ret # NULL =>
               /\ lastOp'.ret \in Slots
               /\ size' = size + 1
         /\ lastOp'.ret = NULL =>
               /\ size' = size
               /\ alloc_size' = alloc_size
               /\ buf' = buf]_vars

\* an insert failed on a non-empty heap with every slot claimed: the return
\* value and the out-parameter are both null
C5_Witness ==
    /\ lastOp.op = "add"
    /\ lastOp.ret = NULL
    /\ lastOp.out = NULL
    /\ alloc_size = max_size
    /\ size > 0

C7_SizeBounds ==
    /\ 0 <= size
    /\ size <= alloc_size
    /\ alloc_size <= max_size

\* capacity used up, some entries removed again, and a call that failed
C7_Witness ==
    /\ alloc_size = max_size
    /\ 0 < size /\ size < alloc_size
    /\ lastOp.op = "add" /\ lastOp.ret = NULL

\* C8: for every handle returned by an insert, sbinheap_is_in_heap is true
\* exactly while the handle's entry has not been removed.
C8_IsInHeap ==
    \A h \in 0 .. (alloc_size - 1) : sbinheap_is_in_heap(buf, h) <=> Live(h)

\* a removed handle whose slot holds a live entry of another handle, and a
\* live handle whose entry was relocated
C8_Witness ==
    /\ \E h \in 0 .. (alloc_size - 1) :
          ~ Live(h) /\ ~ sbinheap_is_in_heap(buf, h) /\ h < size
    /\ \E g \in 0 .. (alloc_size - 1) :
          Live(g) /\ sbinheap_is_in_heap(buf, g) /\ buf[g].ref # g

\* C9: sbinheap_delete on a live handle removes exactly that handle's entry:
\* size decreases by 1, the handle is no longer in the heap, every other live
\* handle stays live and resolves to its own payload, and the heap order
\* holds afterwards.
C9_Delete ==
    [][lastOp'.op = "delete" =>
         /\ size' = size - 1
         /\ \E h \in LiveHandles :
               /\ LiveHandles' = LiveHandles \ {h}
               /\ {buf'[i].data : i \in 0 .. (size' - 1)} = LivePayloads \ {owner[h]}
               /\ Cardinality(LivePayloads) = size
               /\ ~ sbinheap_is_in_heap(buf', h)
               /\ \A g \in LiveHandles \ {h} :
                     /\ sbinheap_is_in_heap(buf', g)
                     /\ Resolve(buf', g) = owner[g]
         /\ HeapOrderOf(buf', key', size')]_vars

\* an entry was deleted from a heap of four, leaving a root strictly ahead
\* of a child
C9_Witness ==
    /\ lastOp.op = "delete"
    /\ size = 3
    /\ Cardinality(LiveHandles) = 3
    /\ \E i \in 1 .. 2 : compare(buf, key, 0, i)

\* C10: after the caller improved the key of a live entry and called
\* sbinheap_decrease with its handle, the heap order holds, the live entries
\* and size are unchanged, every handle still resolves to its payload, and
\* an entry that now ranks ahead of every other live entry is at position 0.
C10_Decrease ==
    [][lastOp'.op = "decrease" =>
         /\ HeapOrderOf(buf', key', size')
         /\ size' = size
         /\ {buf'[i].data : i \in 0 .. (size' - 1)} = LivePayloads
         /\ LiveHandles' = LiveHandles
         /\ \A g \in LiveHandles : Resolve(buf', g) = owner[g]
         /\ \A p \in LivePayloads :
               (/\ key'[p] < key[p]
                /\ \A q \in LivePayloads \ {p} : key'[p] < key'[q])
               => buf'[0].data = p]_vars

\* a decrease brought an entry inserted later than the others to the root
C10_Witness ==
    /\ lastOp.op = "decrease"
    /\ size >= 3
    /\ buf[0].ref_ptr = alloc_size - 1
    /\ \A i \in 1 .. (size - 1) : compare(buf, key, 0, i)

\* C11: whatever the comparator answers, every slot offset that add,
\* delete_root, delete (on a live handle) and decrease read or write, when
\* called in a reachable state, lies in 0 .. max_size-1, and
\* size <= alloc_size <= max_size holds.
C11_InBounds ==
    /\ 0 <= size /\ size <= alloc_size /\ alloc_size <= max_size
    /\ \A kv \in Keys :
          __sbinheap_add_idx(buf, [key EXCEPT ![NewPayload] = kv], size,
                             alloc_size, NewPayload) \subseteq Slots
    /\ __sbinheap_delete_root_idx(buf, key, size) \subseteq Slots
    /\ \A node \in LiveHandles :
          /\ __sbinheap_delete_idx(buf, key, size, node) \subseteq Slots
          /\ \A kv \in Keys :
                __sbinheap_decrease_idx(buf, [key EXCEPT ![owner[node]] = kv],
                                        node) \subseteq Slots

\* a comparator that is no strict order has left a heap of three or more
\* entries out of key order, and a deletion ran on it
C11_Witness ==
    /\ heap_compare # "less"
    /\ size >= 3
    /\ lastOp.op = "delete"
    /\ \E i \in 1 .. (size - 1) : key[buf[i].data] < key[buf[parent(i)].data]
    /\ __sbinheap_delete_root_idx(buf, key, size) # {}

\* C12: for_each invokes the visitor exactly once for each live entry (size
\* invocations in all) and never for a slot that was never claimed or whose
\* entry was deleted.
C12_ForEach ==
    LET v == sbinheap_for_each(buf)
    IN  /\ Len(v) = size
        /\ {v[j] : j \in 1 .. Len(v)} = LiveHandles
        /\ \A j, l \in 1 .. Len(v) : j # l => v[j] # v[l]
        /\ \A j \in 1 .. Len(v) : v[j] < alloc_size /\ Live(v[j])

\* a traversal that skips a deleted handle's slot and an unclaimed slot and
\* still visits a handle whose entry was relocated
C12_Witness ==
    /\ Len(sbinheap_for_each(buf)) >= 2
    /\ alloc_size < max_size
    /\ \E h \in 0 .. (alloc_size - 1) : ~ Live(h)
    /\ \E j \in 1 .. Len(sbinheap_for_each(buf)) :
          buf[sbinheap_for_each(buf)[j]].ref # sbinheap_for_each(buf)[j]

\* C13: the payloads at positions 0 .. size-1 are exactly the payloads
\* inserted and not yet removed, none lost and none duplicated, size is
\* their number, and sbinheap_empty is true exactly when there is none.
C13_Bag ==
    /\ LivePayloads = {owner[h] : h \in LiveHandles}
    /\ Cardinality(LivePayloads) = size
    /\ Cardinality(LiveHandles) = size
    /\ 0 \notin LivePayloads
    /\ sbinheap_empty <=> (LiveHandles = {})

\* all slots were claimed, some entries removed, some still in the heap
C13_Witness ==
    /\ inserted = max_size
    /\ size = 2
    /\ ~ sbinheap_empty
    /\ lastOp.op \in {"delete", "delete_root"}
    /\ LivePayloads = {owner[h] : h \in LiveHandles}

\* C14: live handles and live positions are paired one to one by a single
\* indirection: h->ref is a position below size whose ref_ptr points back at
\* h's ref field, every live position belongs to a live handle, and no two
\* live handles resolve to the same slot.
C14_Forwarding ==
    /\ \A h \in LiveHandles :
          /\ buf[h].ref \in 0 .. (size - 1)
          /\ buf[buf[h].ref].ref_ptr = h
    /\ \A i \in 0 .. (size - 1) :
          /\ buf[i].ref_ptr \in LiveHandles
          /\ buf[buf[i].ref_ptr].ref = i
    /\ \A g, h \in LiveHandles : g # h => buf[g].ref # buf[h].ref

\* a decrease has exchanged the positions of two live handles
C14_Witness ==
    /\ lastOp.op = "decrease"
    /\ \E g, h \in LiveHandles :
          /\ g # h
          /\ buf[g].ref = h
          /\ buf[buf[g].ref].ref_ptr = g

\* C17: the k-th successful insert returns the slot at offset k-1, a slot no
\* earlier insert returned, also after deletions.
C17_FreshHandle ==
    [][(lastOp'.op = "add" /\ lastOp'.ret # NULL) =>
         /\ lastOp'.ret = inserted
         /\ inserted' = inserted + 1
         /\ lastOp'.ret = alloc_size
         /\ ~ Live(lastOp'.ret)
         /\ buf[lastOp'.ret].idx = SBINHEAP_BADIDX]_vars

\* an insert made after deletions returned the last slot of the array
C17_Witness ==
    /\ lastOp.op = "add"
    /\ lastOp.ret = max_size - 1
    /\ size < inserted
    /\ \E h \in 0 .. (max_size - 2) : ~ Live(h)

\* C15 (as amended): a decrease call made after the entry's key worsened or
\* did not change, on a heap that was in heap order before that key change,
\* performs no swap: payloads, forwarding pointers, size and alloc_size are
\* unchanged, so the violation between the entry and its children stays.
C15_WorsenNoSwap ==
    [][(lastOp'.op = "decrease_worse" /\ HeapOrderOf(buf, key, size)) =>
         /\ buf' = buf
         /\ size' = size
         /\ alloc_size' = alloc_size]_vars

\* a worsening decrease has left a parent behind one of its children
C15_Witness ==
    /\ lastOp.op = "decrease_worse"
    /\ size >= 3
    /\ ~ HeapOrderOf(buf, key, size)
    /\ \E i \in 1 .. (size - 1) :
          /\ compare(buf, key, i, parent(i))
          /\ \A j \in (1 .. (size - 1)) \ {i} :
                parent(j) # parent(i) => ~ compare(buf, key, j, parent(j))

\* C15 as stated: every decrease call made after the key worsened or did not
\* change performs no swap and changes neither size nor alloc_size.
C15_Original ==
    [][lastOp'.op = "decrease_worse" =>
         /\ buf' = buf
         /\ size' = size
         /\ alloc_size' = alloc_size]_vars

\* address of the heap's backing array, and the addresses at which a second
\* array of max_size nodes can start without overlapping it
HeapBase == max_size + MaxGap
OtherBases ==
    {a \in 0 .. (2 * (max_size + MaxGap)) :
        a + max_size <= HeapBase \/ a >= HeapBase + max_size}

\* C16 as stated: sbinheap_is_in_this_heap is true for every handle live in
\* the heap; it is false for a handle of this heap that was deleted or never
\* inserted, and for every node of a second heap's array, be that node live
\* in the second heap (idx = its offset) or not in any heap (idx = sentinel),
\* wherever the second array lies, directly adjacent included.
C16_Original ==
    /\ \A h \in Slots :
          sbinheap_is_in_this_heap(HeapBase + h, buf[h].idx, HeapBase) <=> Live(h)
    /\ \A a \in OtherBases, j \in Slots :
          \A x \in {j, SBINHEAP_BADIDX} :
              ~ sbinheap_is_in_this_heap(a + j, x, HeapBase)

RECURSIVE Log2Floor(_)
Log2Floor(n) == IF n <= 1 THEN 0 ELSE 1 + Log2Floor(n \div 2)

\* where each sift loop may stop
LoopExit ==
    /\ (sift.pc = "up" /\ sift'.pc = "idle") =>
          (sift.pos = 0 \/ ~ compare(buf, key, sift.pos, parent(sift.pos)))
    /\ (sift.pc = "force" /\ sift'.pc # "force") => (sift.pos = 0)
    /\ (sift.pc = "down" /\ sift'.pc = "idle") =>
          (\A c \in {left(sift.pos), right(sift.pos)} :
              (c < size) => (~ compare(buf, key, c, sift.pos)))

\* C18: every sift loop that starts comes to an end, having made at most
\* floor(log2(size)) swaps; the sift-up stops only at position 0 or below a
\* parent it does not outrank, the forced promotion only at position 0, and
\* the sift-down only at a leaf or above children that do not outrank it.
C18_Terminates ==
    /\ [](sift.pc # "idle" => sift.swaps <= Log2Floor(size))
    /\ [][LoopExit]_vars
    /\ (sift.pc # "idle") ~> (sift.pc = "idle")

\* a sift-up in a heap of four has reached the root from the last leaf,
\* using both swaps the depth of the heap allows
C18_Witness ==
    /\ sift.pc = "up"
    /\ sift.pos = 0
    /\ size >= 4
    /\ sift.swaps = Log2Floor(size)
    /\ sift.swaps = 2

====
